---- MODULE Spec2Model ----
(***************************************************************************)
(* Control de aforo por cruce de linea (src/aforo/v8.py).                  *)
(*                                                                         *)
(* State machine of ControlAforoCruceLinea as driven by ejecutar(): one    *)
(* action is one iteration of its loop on a frame, which skips or          *)
(* processes the frame (tracking, line crossing, registration of the       *)
(* frame's movements in the database) and then dispatches one key; mouse   *)
(* clicks and iniciar_calibracion arrive between iterations.               *)
(*                                                                         *)
(* Optional values (Python None) are sequences: <<>> is None, <<v>> is v.  *)
(* A point is <<x, y>>; factor_conversion is the fraction <<cm, px>>.      *)
(* Distances are kept squared: sqrt is monotone and exact on the integers  *)
(* used, so d1 < d2 iff d1^2 < d2^2.                                       *)
(***************************************************************************)
EXTENDS Integers, Sequences, FiniteSets, TLC

VARIABLES
    estado,                     \* ejecutar(): "ejecutando", "fin" (break) or "error" (exception)
    skip,                       \* skip % 2 (the counter is only read through % 2)
    y_cruce,                    \* <<>> or <<y>>
    personas_trackeadas,        \* dict in insertion order: sequence of infos
    siguiente_id,
    historial_posicion,         \* id -> sequence of foot y (defaultdict(list))
    ids_cruzados,
    total_entradas,
    total_salidas,
    calibrado,
    altura_real_referencia_cm,
    altura_pixeles_referencia,
    factor_conversion,
    modo_calibracion,
    punto1_calibracion,
    punto2_calibracion,
    movimientos,                \* movements returned by the last detectar_y_trackear
    exitos,                     \* results of the registrar_movimiento calls of the last frame
    fila_calibracion,           \* <<>> or the row the last step handed to table calibracion_camara
    \* ---- history variables (not in the program) ----
    resultado,                  \* id -> result of detectar_cruce_linea in the last processed frame
    muestras,                   \* live id -> every foot y observed since its creation
    emitidos,                   \* live id -> number of movements emitted since its creation
    personas_previas,           \* personas_trackeadas before the last processed frame
    n_detecciones,              \* detections fed to the tracker so far
    tecla,                      \* the key the last step dispatched, "ninguna" if none
                                \* (kept by SpecCalibracion only)
    clasificaciones,            \* 'clasificacion' and 'altura_cm' of the persons of the last
                                \* processed frame, in their order (kept by SpecClasificacion only)
    registro,                   \* <<>> or the last call of registrar_movimiento made by
                                \* SpecRegistro: its arguments, the sink's behaviour, its result
    n_registros,                \* calls of registrar_movimiento made by SpecRegistro
    \* ---- RTSPReader and the locals of ejecutar() (kept by SpecLector only; the
    \* other specifications take the frame of every iteration as given) ----
    frame_actual,               \* RTSPReader.frame_actual: None or <<number of the frame>>
    running,                    \* RTSPReader.running
    stream_liberado,            \* stream.release() was called
    hilo,                       \* position of the thread of update(): "while", "read", "fin"
    capturados,                 \* frames stream.read() has delivered so far
    ultimo_frame_procesado,     \* local of ejecutar(): None or <<number of the frame>>
    veces_procesado,            \* history: frame -> passes to detectar_y_trackear (up to 2)
    q_pulsada,                  \* the user pressed 'q' and no waitKey has returned it yet
    \* ---- the database failures seen by the loop (kept by SpecAvisos only) ----
    contador_sin_db,            \* local of ejecutar()
    avisos,                     \* history: warnings of repeated failure printed by the last step
    racha,                      \* history: movements dropped since the last one registered
    aviso_en_racha,             \* history: a warning was printed since the last one registered
    \* ---- the reads of the loop and its window (kept by SpecSalto only) ----
    lecturas,                   \* history: reads of the loop that returned a frame
    mostrado,                   \* history: <<>> or what the last imshow displayed,
                                \* <<"frame" or "procesado", number of the frame>>
    \* ---- the database (kept by SpecRegistro only) ----
    transaccion,                \* rows written on the connection and not committed
    confirmados                 \* history: rows the last call of registrar_movimiento
                                \* committed for its own movement

vars == <<estado, skip, y_cruce, personas_trackeadas, siguiente_id, historial_posicion,
          ids_cruzados, total_entradas, total_salidas, calibrado,
          altura_real_referencia_cm, altura_pixeles_referencia, factor_conversion,
          modo_calibracion, punto1_calibracion, punto2_calibracion, movimientos,
          exitos, fila_calibracion, resultado, muestras, emitidos, personas_previas,
          n_detecciones, tecla, clasificaciones, registro, n_registros,
          frame_actual, running, stream_liberado, hilo, capturados,
          ultimo_frame_procesado, veces_procesado, q_pulsada,
          contador_sin_db, avisos, racha, aviso_en_racha, lecturas, mostrado,
          transaccion, confirmados>>

\* what the specifications of one aspect of the program keep in addition
lectorVars == <<frame_actual, running, stream_liberado, hilo, capturados,
                ultimo_frame_procesado, veces_procesado, q_pulsada>>

avisoVars == <<contador_sin_db, avisos, racha, aviso_en_racha>>

saltoVars == <<lecturas, mostrado>>

sinkVars == <<transaccion, confirmados>>

auxVars == <<tecla, clasificaciones, registro, n_registros, lectorVars, avisoVars,
             saltoVars, sinkVars>>

calVars == <<calibrado, altura_real_referencia_cm, altura_pixeles_referencia,
             factor_conversion, modo_calibracion, punto1_calibracion, punto2_calibracion>>

trackVars == <<y_cruce, personas_trackeadas, siguiente_id, historial_posicion,
               ids_cruzados, movimientos, resultado, muestras, emitidos,
               personas_previas, n_detecciones>>

(***************************************************************************)
(* Bounds of the model                                                     *)
(***************************************************************************)
MaxDetPorFrame == 2     \* detections in one frame
MaxDetecciones == 3     \* detections over a whole run
MaxSeguimiento == 4     \* detections over a whole run without calibration (SpecSeguimiento)
MaxMuestras == 6        \* detections over a whole run of one person (SpecUnaPersona)

(***************************************************************************)
(* Program constants                                                       *)
(***************************************************************************)
distancia_maxima_tracking == 100
max_historial == 5
max_intentos == 3

None == <<>>

\* Inputs: frame height; person boxes 60 x 160 px given by the centre x and
\* the foot y; click positions; reference heights; keys.
AlturaFrame == 600
BBox(cx, py) == <<cx - 30, py - 160, cx + 30, py>>
CentrosX == {100, 200}
PiesY == {280, 300, 320}
Detecciones == {BBox(cx, py) : cx \in CentrosX, py \in PiesY}
ListasDetecciones == UNION {[1..n -> Detecciones] : n \in 0..MaxDetPorFrame}
\* one person walking along x = 100
PiesUnaPersona == {280, 285, 300, 320}
ListasUnaPersona == {<<>>} \cup {<<BBox(100, py)>> : py \in PiesUnaPersona}
PuntosClick == {<<100, 50>>, <<100, 260>>}
AlturasReferencia == {210}
Teclas == {"q", "c", "r", "otra"}

Abs(n) == IF n < 0 THEN 0 - n ELSE n

(***************************************************************************)
(* Herramientas                                                            *)
(***************************************************************************)
\* np.sqrt((p1[0]-p2[0])**2 + (p1[1]-p2[1])**2), kept squared
calcular_distancia_euclidiana(p1, p2) ==
    (p1[1] - p2[1]) * (p1[1] - p2[1]) + (p1[2] - p2[2]) * (p1[2] - p2[2])

\* int((x1+x2)/2), int((y1+y2)/2): coordinates are non-negative
obtener_centro_bbox(bbox) == <<(bbox[1] + bbox[3]) \div 2, (bbox[2] + bbox[4]) \div 2>>

obtener_pies_persona(bbox) == <<(bbox[1] + bbox[3]) \div 2, bbox[4]>>

calcular_altura_persona(bbox) == bbox[4] - bbox[2]

Info(id, bbox) ==
    [id |-> id, bbox |-> bbox, centro |-> obtener_centro_bbox(bbox),
     pies |-> obtener_pies_persona(bbox), altura_px |-> calcular_altura_persona(bbox)]

Ids(personas) == {personas[k].id : k \in 1..Len(personas)}

\* d[key] = info on a dict kept in insertion order
DictSet(d, info) ==
    IF \E k \in 1..Len(d) : d[k].id = info.id
    THEN [k \in 1..Len(d) |-> IF d[k].id = info.id THEN info ELSE d[k]]
    ELSE Append(d, info)

(***************************************************************************)
(* Tracking: trackear_personas                                             *)
(***************************************************************************)
\* mutant: "if dist <= mejor_dist"
MasCerca_OIgual(dist, mejor_dist) == dist <= mejor_dist

\* "if dist < mejor_dist", on squared distances
MasCerca(dist, mejor_dist) == dist < mejor_dist

\* The inner loop over self.personas_trackeadas.items(): the id kept in
\* mejor_id (<<>> for None) after visiting previas[k..].
RECURSIVE BuscarMejor(_, _, _, _, _, _)
BuscarMejor(previas, k, ids_usados, centro, mejor_id, mejor_dist) ==
    IF k > Len(previas) THEN mejor_id
    ELSE IF previas[k].id \in ids_usados
         THEN BuscarMejor(previas, k + 1, ids_usados, centro, mejor_id, mejor_dist)
         ELSE LET dist == calcular_distancia_euclidiana(centro, previas[k].centro)
              IN  IF MasCerca(dist, mejor_dist)
                  THEN BuscarMejor(previas, k + 1, ids_usados, centro, <<previas[k].id>>, dist)
                  ELSE BuscarMejor(previas, k + 1, ids_usados, centro, mejor_id, mejor_dist)

\* ids_usados after binding a detection to mejor
MarcarUsado(ids_usados, mejor) == ids_usados \cup {mejor}

\* mutant: the counter is not incremented
SiguienteTras_Igual(sig) == sig

\* nuevo_id = self.siguiente_id; self.siguiente_id += 1
SiguienteTras(sig) == sig + 1

\* The loop over the detections: personas_actual and siguiente_id at its end.
RECURSIVE AsignarDetecciones(_, _, _, _, _, _)
AsignarDetecciones(dets, k, previas, personas_actual, ids_usados, sig) ==
    IF k > Len(dets) THEN [personas |-> personas_actual, siguiente_id |-> sig]
    ELSE LET bbox == dets[k]
             mejor == BuscarMejor(previas, 1, ids_usados, obtener_centro_bbox(bbox), None,
                                  distancia_maxima_tracking * distancia_maxima_tracking)
         IN  IF mejor # None
             THEN AsignarDetecciones(dets, k + 1, previas,
                                     DictSet(personas_actual, Info(mejor[1], bbox)),
                                     MarcarUsado(ids_usados, mejor[1]), sig)
             ELSE AsignarDetecciones(dets, k + 1, previas,
                                     DictSet(personas_actual, Info(sig, bbox)),
                                     ids_usados, SiguienteTras(sig))

\* ids_fuera = set(self.personas_trackeadas.keys()) - ids_actuales
IdsFuera(previas, personas_actual) == Ids(previas) \ Ids(personas_actual)

\* mutant: the history of a retired id is kept
RetirarHistorial_Nada(hist, ids_fuera) == hist

\* del self.historial_posicion[id_del] for every id_del in ids_fuera
RetirarHistorial(hist, ids_fuera) == [i \in (DOMAIN hist) \ ids_fuera |-> hist[i]]

\* self.ids_cruzados.remove(id_del) for every id_del in ids_fuera
RetirarCruzados(cruzados, ids_fuera) == cruzados \ ids_fuera

\* trackear_personas(detecciones): the new mapping, id counter, history and crossed set
trackear_personas(dets, previas, sig, hist, cruzados) ==
    LET a == AsignarDetecciones(dets, 1, previas, <<>>, {}, sig)
        ids_fuera == IdsFuera(previas, a.personas)
    IN  [personas |-> a.personas, siguiente_id |-> a.siguiente_id,
         hist |-> RetirarHistorial(hist, ids_fuera),
         cruzados |-> RetirarCruzados(cruzados, ids_fuera)]

(***************************************************************************)
(* Cruce de linea: detectar_cruce_linea                                    *)
(***************************************************************************)
\* mutant: a foot on the line counts as above
ZonaActual_Inclusiva(y_pies, linea) == IF y_pies <= linea THEN "Arriba" ELSE "Abajo"

\* zona_actual = "Arriba" if y_pies < y_cruce else "Abajo"
ZonaActual(y_pies, linea) == IF y_pies < linea THEN "Arriba" ELSE "Abajo"

\* mutant: the average of the two most recent samples, historial[-2:]
ZonaAnterior_Recientes(h, linea) ==
    IF h[Len(h) - 1] + h[Len(h)] < 2 * linea THEN "Arriba" ELSE "Abajo"

\* mutant: the first sample alone, historial[0]
ZonaAnterior_SoloPrimera(h, linea) == IF h[1] < linea THEN "Arriba" ELSE "Abajo"

\* y_inicial = np.mean(historial[:2]); "Arriba" if y_inicial < y_cruce else "Abajo"
\* ((a + b) / 2 < y  iff  a + b < 2 * y)
ZonaAnterior(h, linea) == IF h[1] + h[2] < 2 * linea THEN "Arriba" ELSE "Abajo"

\* mutant: pop() instead of pop(0)
AgregarMuestra_PopFinal(h, y_pies) ==
    LET h1 == Append(h, y_pies)
    IN  IF Len(h1) > max_historial THEN SubSeq(h1, 1, Len(h1) - 1) ELSE h1

\* append(y_pies); if len > max_historial: pop(0)
AgregarMuestra(h, y_pies) ==
    LET h1 == Append(h, y_pies)
    IN  IF Len(h1) > max_historial THEN Tail(h1) ELSE h1

\* mutant: no "if id_persona not in self.ids_cruzados"
Movimiento_SinMemoria(zona_anterior, zona_actual, ya_cruzado) ==
    IF zona_actual # zona_anterior
    THEN IF zona_anterior = "Arriba" /\ zona_actual = "Abajo" THEN "entrada" ELSE "salida"
    ELSE "None"

\* the movement decided from the two zones ("None" for None)
Movimiento(zona_anterior, zona_actual, ya_cruzado) ==
    IF zona_actual # zona_anterior /\ ~ya_cruzado
    THEN IF zona_anterior = "Arriba" /\ zona_actual = "Abajo" THEN "entrada"
         ELSE IF zona_anterior = "Abajo" /\ zona_actual = "Arriba" THEN "salida"
         ELSE "None"
    ELSE "None"

\* mutant: the id is never added to ids_cruzados
MarcarCruzado_Nunca(cruzados, id, mov) == cruzados

\* mutant: the id is added whatever the result
MarcarCruzado_Siempre(cruzados, id, mov) == cruzados \cup {id}

\* self.ids_cruzados.add(id_persona) when a movement is returned
MarcarCruzado(cruzados, id, mov) == IF mov # "None" THEN cruzados \cup {id} ELSE cruzados

\* detectar_cruce_linea(id_persona, y_pies): new history, crossed set and result
detectar_cruce_linea(hist, cruzados, id, y_pies, linea) ==
    LET h0 == IF id \in DOMAIN hist THEN hist[id] ELSE <<>>
        h == AgregarMuestra(h0, y_pies)
        hist2 == [i \in (DOMAIN hist) \cup {id} |-> IF i = id THEN h ELSE hist[i]]
        mov == IF Len(h) < 2 THEN "None"
               ELSE Movimiento(ZonaAnterior(h, linea), ZonaActual(y_pies, linea),
                               id \in cruzados)
    IN  [hist |-> hist2, cruzados |-> MarcarCruzado(cruzados, id, mov), mov |-> mov]

\* The loop "for idp, info in personas.items()" of detectar_y_trackear: history,
\* crossed set, movements and (history variable) per-id results after personas[k..].
RECURSIVE ObservarPersonas(_, _, _, _, _, _, _)
ObservarPersonas(personas, k, hist, cruzados, movs, res, linea) ==
    IF k > Len(personas)
    THEN [hist |-> hist, cruzados |-> cruzados, movimientos |-> movs, resultado |-> res]
    ELSE LET info == personas[k]
             d == detectar_cruce_linea(hist, cruzados, info.id, info.pies[2], linea)
             movs2 == IF d.mov # "None"
                      THEN Append(movs, [tipo |-> d.mov, altura_px |-> info.altura_px,
                                         id |-> info.id])
                      ELSE movs
             res2 == [i \in (DOMAIN res) \cup {info.id} |->
                         IF i = info.id THEN d.mov ELSE res[i]]
         IN  ObservarPersonas(personas, k + 1, d.hist, d.cruzados, movs2, res2, linea)

\* self.y_cruce = int(altura * self.posicion_y_cruce), posicion_y_cruce = 0.5
CalcularYCruce(altura) == altura \div 2

(***************************************************************************)
(* Clasificacion por altura: heights in cm are kept in tenths of a cm      *)
(***************************************************************************)
\* round(num / den, 1) in tenths, for num >= 0 and den > 0: the nearest
\* tenth, the even one when two are equally near
Redondear1(num, den) ==
    LET q == (10 * num) \div den
        r == (10 * num) % den
    IN  IF 2 * r < den THEN q
        ELSE IF 2 * r > den THEN q + 1
        ELSE IF q % 2 = 0 THEN q ELSE q + 1

\* estimar_altura_real(altura_px): None, or round(altura_px * factor, 1)
estimar_altura_real(altura_px, esta_calibrado, factor) ==
    IF ~esta_calibrado \/ factor = None THEN None
    ELSE <<Redondear1(altura_px * factor[1], factor[2])>>

\* proporcion = altura_px / ancho_px if ancho_px > 0 else 0; proporcion > 2.8
ProporcionMayor(altura_px, ancho_px) ==
    IF ancho_px > 0 THEN 10 * altura_px > 28 * ancho_px ELSE FALSE

\* mutant: "if altura_cm <= 110"
Categoria_LimiteInclusivo(decimas, altura_px, ancho_px) ==
    IF decimas <= 1100 THEN "Nino/a"
    ELSE IF decimas < 1500 THEN "Adolescente"
    ELSE IF ProporcionMayor(altura_px, ancho_px) THEN "Mujer" ELSE "Hombre"

\* the if / elif / else on altura_cm and proporcion
Categoria(decimas, altura_px, ancho_px) ==
    IF decimas < 1100 THEN "Nino/a"
    ELSE IF decimas < 1500 THEN "Adolescente"
    ELSE IF ProporcionMayor(altura_px, ancho_px) THEN "Mujer" ELSE "Hombre"

\* clasificar_persona(altura_px, ancho_px): the category and altura_cm
clasificar_persona(altura_px, ancho_px, esta_calibrado, factor) ==
    LET altura_cm == estimar_altura_real(altura_px, esta_calibrado, factor)
    IN  IF altura_cm = None THEN [clasificacion |-> "Sin calibrar", altura_cm |-> None]
        ELSE [clasificacion |-> Categoria(altura_cm[1], altura_px, ancho_px),
              altura_cm |-> altura_cm]

\* trackear_personas classifies every detection, in order, before matching it
ClasificarDetecciones(dets) ==
    [k \in 1..Len(dets) |->
        clasificar_persona(calcular_altura_persona(dets[k]), dets[k][3] - dets[k][1],
                           calibrado, factor_conversion)]

(***************************************************************************)
(* Registro en base de datos: registrar_movimiento                         *)
(***************************************************************************)
\* What the database does to one call: whether verificar_reconectar_db
\* succeeds, and the statement at which each failing attempt raises; an
\* attempt beyond the listed failures succeeds.
Fallos == {"insert", "update", "commit"}
SalidasSink ==
    {[conectado |-> FALSE, fallos |-> <<>>]} \cup
    {[conectado |-> TRUE, fallos |-> f] : f \in UNION {[1..n -> Fallos] : n \in 0..max_intentos}}

\* rows of table movimientos and updates of table aforo_actual
SinFilas == [movimientos |-> 0, aforo |-> 0]

\* self.total_entradas += 1 / self.total_salidas += 1 run after the UPDATE
\* statement and before the commit
ContadorTrasIntento(total, tipo, de_tipo, fallo) ==
    IF tipo = de_tipo /\ fallo \in {"ninguno", "commit"} THEN total + 1 ELSE total

\* mutant: "intentos <= max_intentos"
QuedanIntentos_UnoMas(intentos) == intentos <= max_intentos

\* "intentos < max_intentos", the condition of the while and of the if that
\* follows intentos += 1 in the except branch
QuedanIntentos(intentos) == intentos < max_intentos

\* The "while intentos < max_intentos" loop; intentos counts the failed
\* attempts, n_intentos of the result every execution of the try block
RECURSIVE Intentar(_, _, _, _, _)
Intentar(tipo, fallos, intentos, te, ts) ==
    IF ~QuedanIntentos(intentos)
    THEN [exito |-> FALSE, n_intentos |-> intentos, te |-> te, ts |-> ts]
    ELSE LET fallo == IF intentos + 1 > Len(fallos) THEN "ninguno" ELSE fallos[intentos + 1]
             te2 == ContadorTrasIntento(te, tipo, "entrada", fallo)
             ts2 == ContadorTrasIntento(ts, tipo, "salida", fallo)
         IN  IF fallo = "ninguno"
             THEN [exito |-> TRUE, n_intentos |-> intentos + 1, te |-> te2, ts |-> ts2]
             ELSE IF QuedanIntentos(intentos + 1)
                  THEN Intentar(tipo, fallos, intentos + 1, te2, ts2)
                  ELSE [exito |-> FALSE, n_intentos |-> intentos + 1, te |-> te2, ts |-> ts2]

registrar_movimiento(tipo, salida, te, ts) ==
    IF ~salida.conectado THEN [exito |-> FALSE, n_intentos |-> 0, te |-> te, ts |-> ts]
    ELSE Intentar(tipo, salida.fallos, 0, te, ts)

SumarFilas(a, b) ==
    [movimientos |-> a.movimientos + b.movimientos, aforo |-> a.aforo + b.aforo]

\* What the statements of one call do to the database (autocommit=False, and
\* no rollback in the except branch): every attempt writes its INSERT and
\* its UPDATE into the open transaction up to the statement that raises, and
\* the commit of the attempt that succeeds commits the whole transaction.
\* sigue: the connection survives the errors and keeps the rows written so
\* far (an error of one statement); otherwise the session is lost with them.
\* ajenas are the uncommitted rows of earlier calls, propias those of this one.
RECURSIVE EscribirIntentos(_, _, _, _, _)
EscribirIntentos(fallos, intentos, sigue, ajenas, propias) ==
    IF ~QuedanIntentos(intentos)
    THEN [confirmados |-> SinFilas, transaccion |-> SumarFilas(ajenas, propias)]
    ELSE LET fallo == IF intentos + 1 > Len(fallos) THEN "ninguno" ELSE fallos[intentos + 1]
             escritas ==
                 [movimientos |-> propias.movimientos + (IF fallo # "insert" THEN 1 ELSE 0),
                  aforo |-> propias.aforo + (IF fallo \in {"ninguno", "commit"} THEN 1 ELSE 0)]
             quedan == IF sigue THEN escritas ELSE SinFilas
             otras == IF sigue THEN ajenas ELSE SinFilas
         IN  IF fallo = "ninguno"
             THEN [confirmados |-> escritas, transaccion |-> SinFilas]
             ELSE IF QuedanIntentos(intentos + 1)
                  THEN EscribirIntentos(fallos, intentos + 1, sigue, otras, quedan)
                  ELSE [confirmados |-> SinFilas, transaccion |-> SumarFilas(otras, quedan)]

\* the rows committed for the movement of one call and the transaction left open
EscriturasDe(salida, sigue, abierta) ==
    IF ~salida.conectado THEN [confirmados |-> SinFilas, transaccion |-> SinFilas]
    ELSE EscribirIntentos(salida.fallos, 0, sigue, abierta, SinFilas)

(***************************************************************************)
(* Calibracion                                                             *)
(***************************************************************************)
\* mutant: no abs()
AlturaPixeles_SinAbs(p1, p2) == p2[2] - p1[2]

\* abs(self.punto2_calibracion[1] - self.punto1_calibracion[1])
AlturaPixeles(p1, p2) == Abs(p2[2] - p1[2])

\* "if self.punto1_calibracion and self.punto2_calibracion": a tuple (x, y) is truthy
PuntosMarcados == punto1_calibracion # None /\ punto2_calibracion # None

\* guardar_calibracion_db(nombre_camara): nothing is inserted unless calibrado;
\* the row is (altura_referencia_cm, altura_referencia_px, factor_conversion)
guardar_calibracion_db(esta_calibrado, cm, px, factor) ==
    IF esta_calibrado THEN <<[altura_referencia_cm |-> cm, altura_referencia_px |-> px,
                              factor_conversion |-> factor]>>
    ELSE <<>>

\* mutant: confirming without both points leaves calibration mode
ConfirmarSinPuntos_SaleDelModo ==
    /\ estado' = "ejecutando"
    /\ fila_calibracion' = <<>>
    /\ modo_calibracion' = FALSE
    /\ UNCHANGED <<calibrado, altura_real_referencia_cm, altura_pixeles_referencia,
                   factor_conversion, punto1_calibracion, punto2_calibracion>>

\* the else branch of confirmar_calibracion(): a message, return False
ConfirmarSinPuntos ==
    /\ estado' = "ejecutando"
    /\ fila_calibracion' = <<>>
    /\ UNCHANGED calVars

\* "if self.confirmar_calibracion(): self.guardar_calibracion_db(nombre_camara)".
\* confirmar_calibracion(): the division raises ZeroDivisionError when the two
\* points have the same y, after altura_pixeles_referencia was assigned; the
\* exception leaves ejecutar().
confirmar_calibracion ==
    IF PuntosMarcados
    THEN LET px == AlturaPixeles(punto1_calibracion, punto2_calibracion)
         IN  /\ altura_pixeles_referencia' = <<px>>
             /\ IF px = 0
                THEN /\ estado' = "error"
                     /\ fila_calibracion' = <<>>
                     /\ UNCHANGED <<factor_conversion, calibrado, modo_calibracion>>
                ELSE /\ factor_conversion' = <<altura_real_referencia_cm[1], px>>
                     /\ calibrado' = TRUE
                     /\ modo_calibracion' = FALSE
                     /\ estado' = "ejecutando"
                     /\ fila_calibracion' =
                            guardar_calibracion_db(calibrado', altura_real_referencia_cm[1],
                                                   px, factor_conversion')
             /\ UNCHANGED <<altura_real_referencia_cm, punto1_calibracion, punto2_calibracion>>
    ELSE ConfirmarSinPuntos

\* reiniciar_calibracion()
reiniciar_calibracion ==
    /\ punto1_calibracion' = None
    /\ punto2_calibracion' = None
    /\ UNCHANGED <<calibrado, altura_real_referencia_cm, altura_pixeles_referencia,
                   factor_conversion, modo_calibracion>>

\* key = cv2.waitKey(1) & 0xFF and its dispatch, after a skipped or a processed frame
ManejarTecla(key) ==
    IF key = "q" THEN estado' = "fin" /\ fila_calibracion' = <<>> /\ UNCHANGED calVars
    ELSE IF key = "c" /\ modo_calibracion THEN confirmar_calibracion
    ELSE IF key = "r" /\ modo_calibracion
         THEN estado' = "ejecutando" /\ fila_calibracion' = <<>> /\ reiniciar_calibracion
    ELSE estado' = "ejecutando" /\ fila_calibracion' = <<>> /\ UNCHANGED calVars

\* mutant: a click after the second point replaces the second point
MarcarPunto_Sobrescribe(p) ==
    IF punto1_calibracion = None
    THEN punto1_calibracion' = p /\ UNCHANGED punto2_calibracion
    ELSE punto2_calibracion' = p /\ UNCHANGED punto1_calibracion

\* "if self.punto1_calibracion is None: ... elif self.punto2_calibracion is None: ..."
MarcarPunto(p) ==
    IF punto1_calibracion = None
    THEN punto1_calibracion' = p /\ UNCHANGED punto2_calibracion
    ELSE IF punto2_calibracion = None
         THEN punto2_calibracion' = p /\ UNCHANGED punto1_calibracion
         ELSE UNCHANGED <<punto1_calibracion, punto2_calibracion>>

\* mouse_callback_calibracion(EVENT_LBUTTONDOWN, x, y), dispatched by the window
Click(p) ==
    /\ estado = "ejecutando"
    /\ modo_calibracion
    /\ MarcarPunto(p)
    /\ UNCHANGED <<calibrado, altura_real_referencia_cm, altura_pixeles_referencia,
                   factor_conversion, modo_calibracion>>
    /\ fila_calibracion' = <<>>
    /\ UNCHANGED <<estado, skip, total_entradas, total_salidas, exitos>>
    /\ UNCHANGED trackVars
    /\ tecla' = "ninguna"
    /\ UNCHANGED <<clasificaciones, registro, n_registros>>
    /\ UNCHANGED lectorVars
    /\ UNCHANGED avisoVars
    /\ UNCHANGED saltoVars
    /\ UNCHANGED sinkVars

\* iniciar_calibracion(altura_real_cm), a public method: called between iterations
IniciarCalibracion(altura_real_cm) ==
    /\ estado = "ejecutando"
    /\ altura_real_referencia_cm' = <<altura_real_cm>>
    /\ modo_calibracion' = TRUE
    /\ punto1_calibracion' = None
    /\ punto2_calibracion' = None
    /\ UNCHANGED <<calibrado, altura_pixeles_referencia, factor_conversion>>
    /\ fila_calibracion' = <<>>
    /\ UNCHANGED <<estado, skip, total_entradas, total_salidas, exitos>>
    /\ UNCHANGED trackVars
    /\ tecla' = "ninguna"
    /\ UNCHANGED <<clasificaciones, registro, n_registros>>
    /\ UNCHANGED lectorVars
    /\ UNCHANGED avisoVars
    /\ UNCHANGED saltoVars
    /\ UNCHANGED sinkVars

MaxFrames == 3          \* frames the video source delivers over a whole run

(***************************************************************************)
(* Initial state: __init__, then ejecutar() up to its loop, with or        *)
(* without modo_calibracion_inicial (iniciar_calibracion(210)).            *)
(***************************************************************************)
Init ==
    /\ estado = "ejecutando"
    /\ skip = 0
    /\ y_cruce = None
    /\ personas_trackeadas = <<>>
    /\ siguiente_id = 0
    /\ historial_posicion = <<>>
    /\ ids_cruzados = {}
    /\ total_entradas = 0
    /\ total_salidas = 0
    /\ calibrado = FALSE
    /\ modo_calibracion \in BOOLEAN
    /\ altura_real_referencia_cm \in
           IF modo_calibracion THEN {<<a>> : a \in AlturasReferencia} ELSE {None}
    /\ altura_pixeles_referencia = None
    /\ factor_conversion = None
    /\ punto1_calibracion = None
    /\ punto2_calibracion = None
    /\ movimientos = <<>>
    /\ exitos = <<>>
    /\ fila_calibracion = <<>>
    /\ resultado = <<>>
    /\ muestras = <<>>
    /\ emitidos = <<>>
    /\ personas_previas = <<>>
    /\ n_detecciones = 0
    /\ tecla = "ninguna"
    /\ clasificaciones = <<>>
    /\ registro = <<>>
    /\ n_registros = 0
    /\ frame_actual = None
    /\ running = TRUE
    /\ stream_liberado = FALSE
    /\ hilo = "while"
    /\ capturados = 0
    /\ ultimo_frame_procesado = None
    /\ veces_procesado = [n \in 1..MaxFrames |-> 0]
    /\ q_pulsada = FALSE
    /\ contador_sin_db = 0
    /\ avisos = 0
    /\ racha = 0
    /\ aviso_en_racha = FALSE
    /\ lecturas = 0
    /\ mostrado = <<>>
    /\ transaccion = SinFilas
    /\ confirmados = SinFilas

(***************************************************************************)
(* The loop of ejecutar()                                                  *)
(***************************************************************************)
\* skip += 1; skip % 2 != 0: the frame is only displayed
MostrarFrame ==
    /\ estado = "ejecutando"
    /\ skip = 0
    /\ skip' = 1
    /\ UNCHANGED <<total_entradas, total_salidas, exitos>>
    /\ UNCHANGED trackVars

\* an iteration on a frame that is skipped: display, then the key
SaltarFrame ==
    /\ MostrarFrame
    /\ \E key \in Teclas : ManejarTecla(key)
    /\ UNCHANGED auxVars

\* History variables after a frame: the samples and the emitted counts of the
\* live ids (an id starts with no sample and no movement).
PiesDe(personas, i) == personas[CHOOSE k \in 1..Len(personas) : personas[k].id = i].pies[2]

MuestrasTras(personas, res) ==
    [i \in Ids(personas) |->
        LET m == IF i \in DOMAIN muestras THEN muestras[i] ELSE <<>>
        IN  IF i \in DOMAIN res THEN Append(m, PiesDe(personas, i)) ELSE m]

EmitidosTras(personas, res) ==
    [i \in Ids(personas) |->
        LET e == IF i \in DOMAIN emitidos THEN emitidos[i] ELSE 0
        IN  IF i \in DOMAIN res /\ res[i] # "None" THEN e + 1 ELSE e]

\* mutant: no early return in calibration mode
detectar_y_trackear_SinModo(dets, linea) ==
    LET t == trackear_personas(dets, personas_trackeadas, siguiente_id,
                               historial_posicion, ids_cruzados)
        o == ObservarPersonas(t.personas, 1, t.hist, t.cruzados, <<>>, <<>>, linea)
    IN  [personas |-> t.personas, siguiente_id |-> t.siguiente_id, hist |-> o.hist,
         cruzados |-> o.cruzados, movimientos |-> o.movimientos,
         resultado |-> o.resultado]

\* detectar_y_trackear(frame) after the detector: tracking, then, outside
\* calibration mode, detectar_cruce_linea for every person of the frame
detectar_y_trackear(dets, linea) ==
    LET t == trackear_personas(dets, personas_trackeadas, siguiente_id,
                               historial_posicion, ids_cruzados)
        o == IF modo_calibracion
             THEN [hist |-> t.hist, cruzados |-> t.cruzados, movimientos |-> <<>>,
                   resultado |-> <<>>]
             ELSE ObservarPersonas(t.personas, 1, t.hist, t.cruzados, <<>>, <<>>, linea)
    IN  [personas |-> t.personas, siguiente_id |-> t.siguiente_id, hist |-> o.hist,
         cruzados |-> o.cruzados, movimientos |-> o.movimientos,
         resultado |-> o.resultado]

\* "if not self.modo_calibracion: for mov_info in movimientos": the counters
\* and the results after registering movs[k..]
RECURSIVE RegistrarMovimientos(_, _, _, _, _, _)
RegistrarMovimientos(movs, salidas, k, te, ts, hechos) ==
    IF k > Len(movs) THEN [te |-> te, ts |-> ts, exitos |-> hechos]
    ELSE LET r == registrar_movimiento(movs[k].tipo, salidas[k], te, ts)
         IN  RegistrarMovimientos(movs, salidas, k + 1, r.te, r.ts, Append(hechos, r.exito))

\* skip % 2 == 0: the frame is processed and its movements registered
DetectarYRegistrar(dets, max_total) ==
    /\ estado = "ejecutando"
    /\ skip = 1
    /\ n_detecciones + Len(dets) <= max_total
    /\ skip' = 0
    /\ n_detecciones' = n_detecciones + Len(dets)
    /\ personas_previas' = personas_trackeadas
    /\ y_cruce' = IF y_cruce = None THEN <<CalcularYCruce(AlturaFrame)>> ELSE y_cruce
    /\ \E f \in {detectar_y_trackear(dets, y_cruce'[1])} :
          /\ personas_trackeadas' = f.personas
          /\ siguiente_id' = f.siguiente_id
          /\ historial_posicion' = f.hist
          /\ ids_cruzados' = f.cruzados
          /\ movimientos' = f.movimientos
          /\ resultado' = f.resultado
          /\ muestras' = MuestrasTras(f.personas, f.resultado)
          /\ emitidos' = EmitidosTras(f.personas, f.resultado)
          /\ IF modo_calibracion
             THEN /\ exitos' = <<>>
                  /\ UNCHANGED <<total_entradas, total_salidas>>
             ELSE \E salidas \in [1..Len(f.movimientos) -> SalidasSink] :
                    \E r \in {RegistrarMovimientos(f.movimientos, salidas, 1,
                                                   total_entradas, total_salidas, <<>>)} :
                       /\ total_entradas' = r.te
                       /\ total_salidas' = r.ts
                       /\ exitos' = r.exitos

\* an iteration on a frame that is processed: detection, registration, then the key
ProcesarFrame(dets, max_total) ==
    /\ DetectarYRegistrar(dets, max_total)
    /\ \E key \in Teclas : ManejarTecla(key)
    /\ UNCHANGED auxVars

Next ==
    \/ SaltarFrame
    \/ \E dets \in ListasDetecciones : ProcesarFrame(dets, MaxDetecciones)
    \/ \E p \in PuntosClick : Click(p)
    \/ \E a \in AlturasReferencia : IniciarCalibracion(a)

Spec == Init /\ [][Next]_vars

\* No calibration: longer runs of the tracker
InitSinCalibracion == Init /\ ~modo_calibracion

NextSeguimiento ==
    \/ SaltarFrame
    \/ \E dets \in ListasDetecciones : ProcesarFrame(dets, MaxSeguimiento)

SpecSeguimiento == InitSinCalibracion /\ [][NextSeguimiento]_vars

\* One person walking along x = 100, no calibration: the longest runs
InitUnaPersona == Init /\ ~modo_calibracion

NextUnaPersona ==
    \/ SaltarFrame
    \/ \E dets \in ListasUnaPersona : ProcesarFrame(dets, MaxMuestras)

SpecUnaPersona == InitUnaPersona /\ [][NextUnaPersona]_vars

(***************************************************************************)
(* Calibration alone: frames without detections, clicks at three heights,  *)
(* two reference heights; the key of every dispatch is kept in tecla.      *)
(***************************************************************************)
PuntosCalibracion == {<<100, 50>>, <<100, 260>>, <<120, 155>>}
AlturasCalibracion == {210, 105}

SaltarFrameTecla(key) ==
    /\ MostrarFrame
    /\ ManejarTecla(key)
    /\ tecla' = key
    /\ UNCHANGED <<clasificaciones, registro, n_registros>>
    /\ UNCHANGED lectorVars
    /\ UNCHANGED avisoVars
    /\ UNCHANGED saltoVars
    /\ UNCHANGED sinkVars

ProcesarFrameTecla(key) ==
    /\ DetectarYRegistrar(<<>>, MaxDetecciones)
    /\ ManejarTecla(key)
    /\ tecla' = key
    /\ UNCHANGED <<clasificaciones, registro, n_registros>>
    /\ UNCHANGED lectorVars
    /\ UNCHANGED avisoVars
    /\ UNCHANGED saltoVars
    /\ UNCHANGED sinkVars

NextCalibracion ==
    \/ \E key \in Teclas : SaltarFrameTecla(key)
    \/ \E key \in Teclas : ProcesarFrameTecla(key)
    \/ \E p \in PuntosCalibracion : Click(p)
    \/ \E a \in AlturasCalibracion : IniciarCalibracion(a)

SpecCalibracion == Init /\ [][NextCalibracion]_vars

(***************************************************************************)
(* Classification: one person per frame, standing below the line, in boxes *)
(* of several heights and widths (width 0 included), under calibrations of *)
(* 210, 147 and 100 cm over 210 px.                                        *)
(***************************************************************************)
MaxClasificadas == 1    \* detections over a whole run of SpecClasificacion

AlturasPx == {110, 150, 157, 168}
AnchosPx == {0, 50, 60}
BBoxClasificada(alto, ancho) == <<100, 400 - alto, 100 + ancho, 400>>
ListasClasificacion ==
    {<<>>} \cup {<<BBoxClasificada(alto, ancho)>> : alto \in AlturasPx, ancho \in AnchosPx}
AlturasClasificacion == {210, 147, 100}

ProcesarFrameClasificando(dets) ==
    /\ DetectarYRegistrar(dets, MaxClasificadas)
    /\ \E key \in Teclas : ManejarTecla(key)
    /\ clasificaciones' = ClasificarDetecciones(dets)
    /\ UNCHANGED <<tecla, registro, n_registros>>
    /\ UNCHANGED lectorVars
    /\ UNCHANGED avisoVars
    /\ UNCHANGED saltoVars
    /\ UNCHANGED sinkVars

NextClasificacion ==
    \/ SaltarFrame
    \/ \E dets \in ListasClasificacion : ProcesarFrameClasificando(dets)
    \/ \E p \in PuntosClick : Click(p)
    \/ \E a \in AlturasClasificacion : IniciarCalibracion(a)

SpecClasificacion == Init /\ [][NextClasificacion]_vars

(***************************************************************************)
(* registrar_movimiento alone: calls of the method with a movement type    *)
(* and every behaviour of the database, between the frames of one person.  *)
(***************************************************************************)
MaxRegistros == 2       \* calls of registrar_movimiento over a whole run of SpecRegistro

TiposMovimiento == {"entrada", "salida"}

\* registrar_movimiento(tipo, camara, ...)
RegistrarMovimiento(tipo, salida) ==
    /\ estado = "ejecutando"
    /\ n_registros < MaxRegistros
    /\ n_registros' = n_registros + 1
    /\ \E r \in {registrar_movimiento(tipo, salida, total_entradas, total_salidas)} :
          /\ total_entradas' = r.te
          /\ total_salidas' = r.ts
          /\ registro' = <<[tipo |-> tipo, salida |-> salida, exito |-> r.exito,
                            n_intentos |-> r.n_intentos]>>
    /\ fila_calibracion' = <<>>
    /\ UNCHANGED <<estado, skip, exitos, tecla, clasificaciones>>
    /\ UNCHANGED lectorVars
    /\ UNCHANGED avisoVars
    /\ UNCHANGED saltoVars
    /\ \E sigue \in BOOLEAN :
          \E e \in {EscriturasDe(salida, sigue, transaccion)} :
             /\ confirmados' = e.confirmados
             /\ transaccion' = e.transaccion
    /\ UNCHANGED calVars
    /\ UNCHANGED trackVars

NextRegistro ==
    \/ SaltarFrame
    \/ ProcesarFrame(<<>>, MaxDetecciones)
    \/ \E tipo \in TiposMovimiento, salida \in SalidasSink : RegistrarMovimiento(tipo, salida)

SpecRegistro == InitSinCalibracion /\ [][NextRegistro]_vars

(***************************************************************************)
(* The reader thread and the loop: RTSPReader.update() runs in its own     *)
(* thread and writes frame_actual; every iteration of the loop of          *)
(* ejecutar() starts with reader.read(). No calibration, no detections;    *)
(* the only key is the 'q' of the user.                                    *)
(***************************************************************************)
\* "while self.running:" in update()
HiloComprobar ==
    /\ hilo = "while"
    /\ hilo' = IF running THEN "read" ELSE "fin"
    /\ UNCHANGED <<frame_actual, running, stream_liberado, capturados,
                   ultimo_frame_procesado, veces_procesado, q_pulsada>>
    /\ UNCHANGED <<estado, skip, total_entradas, total_salidas, exitos, fila_calibracion,
                   tecla, clasificaciones, registro, n_registros>>
    /\ UNCHANGED avisoVars
    /\ UNCHANGED saltoVars
    /\ UNCHANGED sinkVars
    /\ UNCHANGED calVars
    /\ UNCHANGED trackVars

\* "ret, frame = self.stream.read(); if ret: self.frame_actual = frame": the
\* source delivers a frame or not; a released capture delivers none
HiloLeer(ret) ==
    /\ hilo = "read"
    /\ ret => ~stream_liberado /\ capturados < MaxFrames
    /\ hilo' = "while"
    /\ IF ret
       THEN frame_actual' = <<capturados + 1>> /\ capturados' = capturados + 1
       ELSE UNCHANGED <<frame_actual, capturados>>
    /\ UNCHANGED <<running, stream_liberado, ultimo_frame_procesado, veces_procesado,
                   q_pulsada>>
    /\ UNCHANGED <<estado, skip, total_entradas, total_salidas, exitos, fila_calibracion,
                   tecla, clasificaciones, registro, n_registros>>
    /\ UNCHANGED avisoVars
    /\ UNCHANGED saltoVars
    /\ UNCHANGED sinkVars
    /\ UNCHANGED calVars
    /\ UNCHANGED trackVars

\* the user presses 'q' on the window
PulsarQ ==
    /\ estado = "ejecutando"
    /\ ~q_pulsada
    /\ q_pulsada' = TRUE
    /\ UNCHANGED <<frame_actual, running, stream_liberado, hilo, capturados,
                   ultimo_frame_procesado, veces_procesado>>
    /\ UNCHANGED <<estado, skip, total_entradas, total_salidas, exitos, fila_calibracion,
                   tecla, clasificaciones, registro, n_registros>>
    /\ UNCHANGED avisoVars
    /\ UNCHANGED saltoVars
    /\ UNCHANGED sinkVars
    /\ UNCHANGED calVars
    /\ UNCHANGED trackVars

\* cv2.waitKey(1) & 0xFF: the pending 'q', or no key
TeclaPendiente == IF q_pulsada THEN "q" ELSE "otra"

\* RTSPReader.stop()
reader_stop ==
    /\ running' = FALSE
    /\ stream_liberado' = TRUE

\* after the waitKey of an iteration: "break" leads to reader.stop()
TrasLaTecla(key) ==
    /\ q_pulsada' = FALSE
    /\ IF key = "q" THEN reader_stop ELSE UNCHANGED <<running, stream_liberado>>

\* "if frame is None: if ultimo_frame_procesado is not None: ...waitKey...; continue"
EsperarFrame ==
    /\ estado = "ejecutando"
    /\ frame_actual = None
    /\ IF ultimo_frame_procesado # None
       THEN /\ estado' = IF TeclaPendiente = "q" THEN "fin" ELSE "ejecutando"
            /\ TrasLaTecla(TeclaPendiente)
       ELSE UNCHANGED <<estado, q_pulsada, running, stream_liberado>>
    /\ UNCHANGED <<frame_actual, hilo, capturados, ultimo_frame_procesado, veces_procesado>>
    /\ UNCHANGED <<skip, total_entradas, total_salidas, exitos, fila_calibracion,
                   tecla, clasificaciones, registro, n_registros>>
    /\ UNCHANGED avisoVars
    /\ UNCHANGED saltoVars
    /\ UNCHANGED sinkVars
    /\ UNCHANGED calVars
    /\ UNCHANGED trackVars

\* an iteration with a frame, skip odd: display, then the key
SaltarFrameLeido ==
    /\ frame_actual # None
    /\ MostrarFrame
    /\ ManejarTecla(TeclaPendiente)
    /\ TrasLaTecla(TeclaPendiente)
    /\ UNCHANGED <<frame_actual, hilo, capturados, ultimo_frame_procesado, veces_procesado>>
    /\ UNCHANGED <<tecla, clasificaciones, registro, n_registros>>
    /\ UNCHANGED avisoVars
    /\ UNCHANGED saltoVars
    /\ UNCHANGED sinkVars

\* an iteration with a frame, skip even: detectar_y_trackear(frame),
\* "ultimo_frame_procesado = frame_proc", registration, then the key
ProcesarFrameLeido ==
    /\ frame_actual # None
    /\ DetectarYRegistrar(<<>>, MaxDetecciones)
    /\ ultimo_frame_procesado' = frame_actual
    /\ veces_procesado' =
           [veces_procesado EXCEPT ![frame_actual[1]] = IF @ = 0 THEN 1 ELSE 2]
    /\ ManejarTecla(TeclaPendiente)
    /\ TrasLaTecla(TeclaPendiente)
    /\ UNCHANGED <<frame_actual, hilo, capturados>>
    /\ UNCHANGED <<tecla, clasificaciones, registro, n_registros>>
    /\ UNCHANGED avisoVars
    /\ UNCHANGED saltoVars
    /\ UNCHANGED sinkVars

\* one iteration of "while True:" in ejecutar()
Iterar == EsperarFrame \/ SaltarFrameLeido \/ ProcesarFrameLeido

\* one step of the thread of update()
Hilo == HiloComprobar \/ (\E ret \in BOOLEAN : HiloLeer(ret))

NextLector ==
    \/ EsperarFrame
    \/ SaltarFrameLeido
    \/ ProcesarFrameLeido
    \/ HiloComprobar
    \/ \E ret \in BOOLEAN : HiloLeer(ret)
    \/ PulsarQ

SpecLector == InitSinCalibracion /\ [][NextLector]_vars

\* Both threads keep running: the loop iterates and update() takes its steps.
\* Nothing makes the source deliver a frame.
SpecLectorJusto ==
    /\ InitSinCalibracion
    /\ [][NextLector]_vars
    /\ WF_vars(Iterar)
    /\ WF_vars(Hilo)

(***************************************************************************)
(* Repeated database failures: persons that appear below the line, step    *)
(* above it (an exit) and leave, one after the other, with every behaviour *)
(* of the database for every exit; contador_sin_db counts the failures.    *)
(***************************************************************************)
MaxCruces == 23         \* persons over a whole run of SpecAvisos

umbral_sin_db == 10

\* mutant: "contador_sin_db >= 10"
SuperaUmbral_Igual(contador) == contador >= umbral_sin_db

\* "if contador_sin_db > 10:"
SuperaUmbral(contador) == contador > umbral_sin_db

\* "if not exito: contador_sin_db += 1; if contador_sin_db > 10: print(...);
\* contador_sin_db = 0 / else: contador_sin_db = 0" for hechos[k..], with the
\* history of the warnings
RECURSIVE ContarFallos(_, _, _)
ContarFallos(hechos, k, c) ==
    IF k > Len(hechos) THEN c
    ELSE ContarFallos(hechos, k + 1,
             IF hechos[k]
             THEN [contador |-> 0, avisos |-> c.avisos, racha |-> 0, avisado |-> FALSE]
             ELSE IF SuperaUmbral(c.contador + 1)
                  THEN [contador |-> 0, avisos |-> c.avisos + 1, racha |-> c.racha + 1,
                        avisado |-> TRUE]
                  ELSE [contador |-> c.contador + 1, avisos |-> c.avisos,
                        racha |-> c.racha + 1, avisado |-> c.avisado])

\* the detections of the next processed frame: a person appears at foot y 320,
\* is seen at 280, and is gone
SiguienteEscena ==
    IF personas_trackeadas = <<>> THEN <<BBox(100, 320)>>
    ELSE IF ids_cruzados = {} THEN <<BBox(100, 280)>>
    ELSE <<>>

TeclasAvisos == {"q", "otra"}

SaltarFrameAvisos(key) ==
    /\ MostrarFrame
    /\ ManejarTecla(key)
    /\ tecla' = key
    /\ avisos' = 0
    /\ UNCHANGED <<contador_sin_db, racha, aviso_en_racha>>
    /\ UNCHANGED <<clasificaciones, registro, n_registros>>
    /\ UNCHANGED lectorVars
    /\ UNCHANGED saltoVars
    /\ UNCHANGED sinkVars

\* a processed frame: the registration of its movements with the count of the
\* failures, then the key
ProcesarFrameAvisos(key) ==
    /\ DetectarYRegistrar(SiguienteEscena, 2 * MaxCruces)
    /\ \E c \in {ContarFallos(exitos', 1, [contador |-> contador_sin_db, avisos |-> 0,
                                           racha |-> racha, avisado |-> aviso_en_racha])} :
          /\ contador_sin_db' = c.contador
          /\ avisos' = c.avisos
          /\ racha' = c.racha
          /\ aviso_en_racha' = c.avisado
    /\ ManejarTecla(key)
    /\ tecla' = key
    /\ UNCHANGED <<clasificaciones, registro, n_registros>>
    /\ UNCHANGED lectorVars
    /\ UNCHANGED saltoVars
    /\ UNCHANGED sinkVars

NextAvisos ==
    \/ \E key \in TeclasAvisos : SaltarFrameAvisos(key)
    \/ \E key \in TeclasAvisos : ProcesarFrameAvisos(key)

SpecAvisos == InitSinCalibracion /\ [][NextAvisos]_vars

(***************************************************************************)
(* The frame skip: every read of the loop returns a new frame, numbered by *)
(* the read, once the first frame has arrived; one person, with or without *)
(* calibration mode.                                                       *)
(***************************************************************************)
MaxLecturas == 6        \* reads that return a frame over a whole run of SpecSalto

\* mutant: a skipped iteration always displays its own frame
QueMostrar_Frame(ultimo, frame) == <<"frame", frame[1]>>

\* "if ultimo_frame_procesado is not None: imshow(ultimo_frame_procesado)
\* else: imshow(frame)"
QueMostrar(ultimo, frame) ==
    IF ultimo # None THEN <<"procesado", ultimo[1]>> ELSE <<"frame", frame[1]>>

\* "frame = reader.read()" returning a frame that arrived since the last read
LeerFrameNuevo ==
    /\ lecturas < MaxLecturas
    /\ lecturas' = lecturas + 1
    /\ frame_actual' = <<lecturas + 1>>
    /\ UNCHANGED <<running, stream_liberado, hilo, capturados, veces_procesado, q_pulsada>>

SaltarFrameSalto ==
    /\ LeerFrameNuevo
    /\ MostrarFrame
    /\ mostrado' = QueMostrar(ultimo_frame_procesado, frame_actual')
    /\ \E key \in Teclas : ManejarTecla(key)
    /\ UNCHANGED ultimo_frame_procesado
    /\ UNCHANGED <<tecla, clasificaciones, registro, n_registros>>
    /\ UNCHANGED avisoVars
    /\ UNCHANGED sinkVars

ProcesarFrameSalto(dets) ==
    /\ LeerFrameNuevo
    /\ DetectarYRegistrar(dets, MaxDetecciones)
    /\ ultimo_frame_procesado' = frame_actual'
    /\ mostrado' = <<"procesado", frame_actual'[1]>>
    /\ \E key \in Teclas : ManejarTecla(key)
    /\ UNCHANGED <<tecla, clasificaciones, registro, n_registros>>
    /\ UNCHANGED avisoVars
    /\ UNCHANGED sinkVars

NextSalto ==
    \/ EsperarFrame
    \/ SaltarFrameSalto
    \/ \E dets \in ListasUnaPersona : ProcesarFrameSalto(dets)

SpecSalto == Init /\ [][NextSalto]_vars

(***************************************************************************)
(* Properties                                                              *)
(***************************************************************************)
LiveIds == Ids(personas_trackeadas)

\* side of the crossing line: above is y < line, a y on the line is below
EsArriba(y) == y < y_cruce[1]

HistDe(id) == IF id \in DOMAIN historial_posicion THEN historial_posicion[id] ELSE <<>>

\* the last n elements of a sequence
Ultimas(m, n) == SubSeq(m, Len(m) - n + 1, Len(m))

EsPrefijo(p, m) == Len(p) <= Len(m) /\ SubSeq(m, 1, Len(p)) = p

\* C1: every identity emits at most one crossing event (entrance or exit)
\* between its creation and its retirement, however often it oscillates
\* across the line afterwards.
C1_UnCrucePorVida == \A id \in DOMAIN emitidos : emitidos[id] <= 1

\* an identity that has emitted is observed again on the other side of its
\* reference zone, and nothing is emitted
C1_Witness ==
    \E id \in DOMAIN resultado :
        /\ emitidos[id] = 1
        /\ resultado[id] = "None"
        /\ Len(historial_posicion[id]) >= 4
        /\ EsArriba(muestras[id][Len(muestras[id])]) #
               (historial_posicion[id][1] + historial_posicion[id][2] < 2 * y_cruce[1])

\* the samples of an identity lie on both sides of the line
Straddles(m) == \E i, j \in 1..Len(m) : EsArriba(m[i]) /\ ~EsArriba(m[j])

\* C2 as stated: an identity with at least 2 samples on both sides of the
\* line has emitted exactly one crossing event when it is retired.
C2_Original ==
    [][\A id \in DOMAIN emitidos :
          (id \notin DOMAIN emitidos' /\ Len(muestras[id]) >= 2 /\ Straddles(muestras[id]))
              => emitidos[id] = 1]_vars

\* C2 as amended: an identity whose first two samples lie on the same side of
\* the line and that has a later sample on the other side has emitted
\* exactly one crossing event, whatever oscillations follow.
C2_CruceTrasDosMuestras ==
    \A id \in DOMAIN muestras :
        LET m == muestras[id]
        IN  (/\ Len(m) >= 3
             /\ EsArriba(m[1]) = EsArriba(m[2])
             /\ \E j \in 3..Len(m) : EsArriba(m[j]) # EsArriba(m[1]))
            => emitidos[id] = 1

\* the first two samples on one side, a crossing, and oscillations after it,
\* beyond the 5 samples the history keeps
C2_Witness ==
    \E id \in DOMAIN muestras :
        LET m == muestras[id]
        IN  /\ Len(m) = 6
            /\ EsArriba(m[1]) /\ EsArriba(m[2]) /\ ~EsArriba(m[3])
            /\ EsArriba(m[4]) /\ ~EsArriba(m[5]) /\ EsArriba(m[6])
            /\ emitidos[id] = 1

\* C3 as stated, line at y = 300: 280 then 285 emit nothing, 320 emits an
\* entrance, the following 280 emits an exit, and nothing is emitted after it.
C3_Original ==
    \A id \in DOMAIN resultado :
        LET m == muestras[id]
        IN  y_cruce = <<300>> =>
            /\ (m = <<280>> \/ m = <<280, 285>>) => resultado[id] = "None"
            /\ m = <<280, 285, 320>> => resultado[id] = "entrada"
            /\ m = <<280, 285, 320, 280>> => resultado[id] = "salida"
            /\ (EsPrefijo(<<280, 285, 320, 280>>, m) /\ Len(m) > 4) => resultado[id] = "None"

\* C3 as amended: 280 then 285 emit nothing, 320 emits an entrance, and every
\* later observation of the identity, the following 280 included, emits nothing.
C3_EntradaUnica ==
    \A id \in DOMAIN resultado :
        LET m == muestras[id]
        IN  y_cruce = <<300>> =>
            /\ (m = <<280>> \/ m = <<280, 285>>) => resultado[id] = "None"
            /\ m = <<280, 285, 320>> => resultado[id] = "entrada"
            /\ (EsPrefijo(<<280, 285, 320>>, m) /\ Len(m) > 3) =>
                   (resultado[id] = "None" /\ emitidos[id] = 1)

\* the identity went 280, 285, 320, back to 280 and to 320 again
C3_Witness ==
    \E id \in DOMAIN resultado :
        /\ muestras[id] = <<280, 285, 320, 280, 320>>
        /\ y_cruce = <<300>>

\* C8: the position history of an identity holds at most 5 samples and is
\* the most recent min(n, 5) foot y observed for it, in observation order;
\* after 6 observations its length is 5 and the first sample is gone.
C8_HistorialFIFO ==
    /\ DOMAIN historial_posicion \subseteq DOMAIN muestras
    /\ \A id \in DOMAIN muestras :
          LET m == muestras[id]
              h == HistDe(id)
          IN  /\ Len(h) <= 5
              /\ h = Ultimas(m, IF Len(m) < 5 THEN Len(m) ELSE 5)
              /\ Len(m) = 6 => (Len(h) = 5 /\ h = Tail(m))

\* six observations of one identity, the first of them dropped from its history
C8_Witness ==
    \E id \in DOMAIN historial_posicion :
        /\ Len(muestras[id]) = 6
        /\ Len(historial_posicion[id]) = 5
        /\ muestras[id][1] # muestras[id][2]

\* C9: a live id is in ids_cruzados iff exactly one crossing event has been
\* emitted for it since its creation.
C9_CruzadoSiiEmitido ==
    \A id \in LiveIds : (id \in ids_cruzados) <=> (emitidos[id] = 1)

\* one live identity has crossed and stayed, after an earlier one was retired
C9_Witness ==
    /\ siguiente_id >= 2
    /\ \E id \in LiveIds :
          id \in ids_cruzados /\ emitidos[id] = 1 /\ Len(muestras[id]) >= 4

\* C5: the identities of the previous frame that matched no detection are
\* absent from the live mapping, the history and the crossed set, so the ids
\* with a history and the crossed ids are live ids; an identity created by the
\* last frame has at most the sample of that frame, has emitted nothing and
\* is not in the crossed set.
C5_RetiroCompleto ==
    /\ DOMAIN historial_posicion \subseteq LiveIds
    /\ ids_cruzados \subseteq LiveIds
    /\ \A id \in Ids(personas_previas) \ LiveIds :
          id \notin DOMAIN historial_posicion /\ id \notin ids_cruzados
    /\ \A k \in 1..Len(personas_trackeadas) :
          LET id == personas_trackeadas[k].id
          IN  id \notin Ids(personas_previas) =>
                  /\ HistDe(id) \in {<<>>, <<personas_trackeadas[k].pies[2]>>}
                  /\ id \notin ids_cruzados
                  /\ emitidos[id] = 0

\* identity 0 was retired, and the person detected afterwards got id 1 with a
\* history of its own and crossed the line
C5_Witness ==
    /\ siguiente_id = 2
    /\ LiveIds = {1}
    /\ Ids(personas_previas) = {1}
    /\ 1 \in ids_cruzados
    /\ Len(historial_posicion[1]) = 3

\* a frame is processed by this step
FrameProcesado == skip = 1 /\ skip' = 0

\* C4: detectar_cruce_linea(id, y) returns None with fewer than 2 samples;
\* otherwise, with zone now = above iff y < line (y on the line is below) and
\* zone before taken from the average of the first two samples of the
\* history, it returns "entrada" only from above to below, "salida" only from
\* below to above, and None when the zones are equal or the id is already in
\* ids_cruzados (and a movement otherwise).
C4_Observe ==
    [][(FrameProcesado /\ ~modo_calibracion) =>
          \A k \in 1..Len(personas_trackeadas') :
              LET id == personas_trackeadas'[k].id
                  y == personas_trackeadas'[k].pies[2]
                  h == historial_posicion'[id]
                  r == resultado'[id]
                  ahora_arriba == y < y_cruce'[1]
                  antes_arriba == h[1] + h[2] < 2 * y_cruce'[1]
                  ya == id \in ids_cruzados
              IN  IF Len(h) < 2 THEN r = "None"
                  ELSE /\ r \in {"entrada", "salida", "None"}
                       /\ r = "entrada" => (antes_arriba /\ ~ahora_arriba)
                       /\ r = "salida" => (~antes_arriba /\ ahora_arriba)
                       /\ (antes_arriba = ahora_arriba \/ ya) => r = "None"
                       /\ (antes_arriba # ahora_arriba /\ ~ya) => r # "None"]_vars

\* an entrance returned for a foot exactly on the line, and a later change of
\* zone of the same identity that returned None
C4_Witness ==
    \E id \in DOMAIN resultado :
        LET m == muestras[id]
        IN  /\ Len(m) = 4
            /\ m[3] = y_cruce[1]
            /\ emitidos[id] = 1
            /\ EsArriba(m[1]) /\ EsArriba(m[2]) /\ ~EsArriba(m[4])
            /\ resultado[id] = "None"

\* C6: ids are allocated in strictly increasing order and never reused: an
\* identity created by a frame gets an id greater than every id assigned
\* before; the live ids are pairwise distinct, and after a frame there is one
\* live identity per detection of the frame.
C6_IdsCrecientes ==
    /\ [](/\ \A j, k \in 1..Len(personas_trackeadas) :
                j # k => personas_trackeadas[j].id # personas_trackeadas[k].id
          /\ \A k \in 1..Len(personas_trackeadas) :
                personas_trackeadas[k].id < siguiente_id)
    /\ [][/\ siguiente_id' >= siguiente_id
          /\ \A k \in 1..Len(personas_trackeadas') :
                LET id == personas_trackeadas'[k].id
                IN  id \notin LiveIds =>
                       /\ id >= siguiente_id
                       /\ \A j \in 1..(k - 1) : personas_trackeadas'[j].id \notin LiveIds
                              => personas_trackeadas'[j].id < id
          /\ FrameProcesado => Len(personas_trackeadas') = n_detecciones' - n_detecciones
         ]_vars

\* two identities created by one frame after another identity was retired
C6_Witness ==
    /\ siguiente_id = 3
    /\ Len(personas_trackeadas) = 2
    /\ LiveIds = {1, 2}

\* the previous identities not yet bound when detection k of the last frame
\* was processed, and those of them strictly within 100 px of its centroid
C7_Libres(k) ==
    {i \in 1..Len(personas_previas) :
        personas_previas[i].id \notin {personas_trackeadas[j].id : j \in 1..(k - 1)}}

C7_Dist(k, i) ==
    calcular_distancia_euclidiana(obtener_centro_bbox(personas_trackeadas[k].bbox),
                                  personas_previas[i].centro)

C7_Cercanas(k) == {i \in C7_Libres(k) : C7_Dist(k, i) < 100 * 100}

\* the new identities among the first k of the last frame
C7_Nuevas(k) ==
    {j \in 1..k : personas_trackeadas[j].id \notin Ids(personas_previas)}

\* C7: each detection, in the order received, is bound to the previous
\* identity not yet matched in this frame with the minimum centroid distance,
\* if that distance is strictly below 100 px, the earliest in insertion order
\* among equidistant ones; otherwise (a distance of exactly 100 included) it
\* becomes a new identity with a fresh id.
C7_VecinoMasCercano ==
    \A k \in 1..Len(personas_trackeadas) :
        IF C7_Cercanas(k) # {}
        THEN \E i \in C7_Cercanas(k) :
                /\ personas_trackeadas[k].id = personas_previas[i].id
                /\ \A j \in C7_Cercanas(k) :
                      \/ C7_Dist(k, i) < C7_Dist(k, j)
                      \/ (C7_Dist(k, i) = C7_Dist(k, j) /\ i <= j)
        ELSE /\ personas_trackeadas[k].id \notin Ids(personas_previas)
             /\ personas_trackeadas[k].id =
                    siguiente_id - Cardinality(C7_Nuevas(Len(personas_trackeadas)))
                                 + Cardinality(C7_Nuevas(k)) - 1

\* a detection equidistant from two previous identities is bound to the first,
\* and a detection at exactly 100 px from the only free one gets a new id
C7_Witness ==
    /\ Len(personas_previas) = 2
    /\ Len(personas_trackeadas) = 2
    /\ C7_Dist(1, 1) = C7_Dist(1, 2)
    /\ C7_Dist(1, 1) < 100 * 100
    /\ personas_trackeadas[1].id = personas_previas[1].id
    /\ C7_Dist(2, 2) = 100 * 100
    /\ personas_trackeadas[2].id \notin Ids(personas_previas)

\* C10: a frame processed while calibration mode is active produces no
\* movement and registers none, appends no sample to any history, adds no id
\* to ids_cruzados and leaves total_entradas and total_salidas unchanged.
C10_CalibracionSuspende ==
    [][(FrameProcesado /\ modo_calibracion) =>
          /\ movimientos' = <<>>
          /\ exitos' = <<>>
          /\ resultado' = <<>>
          /\ \A id \in DOMAIN historial_posicion' :
                /\ id \in DOMAIN historial_posicion
                /\ historial_posicion'[id] = historial_posicion[id]
          /\ ids_cruzados' \subseteq ids_cruzados
          /\ total_entradas' = total_entradas
          /\ total_salidas' = total_salidas]_vars

\* in calibration mode a live identity stands on the other side of the line
\* than its first two samples, without having crossed: outside calibration
\* mode that frame would have emitted a movement
C10_Witness ==
    /\ modo_calibracion
    /\ \E k \in 1..Len(personas_trackeadas) :
          LET id == personas_trackeadas[k].id
          IN  /\ Len(HistDe(id)) = 2
              /\ id \notin ids_cruzados
              /\ EsArriba(personas_trackeadas[k].pies[2]) #
                     (HistDe(id)[1] + HistDe(id)[2] < 2 * y_cruce[1])

\* a step of the loop that dispatched the key to confirmar_calibracion /
\* reiniciar_calibracion (the keys "c" and "r" reach them in calibration mode only)
ConfirmarDespachada == skip' # skip /\ tecla' = "c" /\ modo_calibracion

ReiniciarDespachada == skip' # skip /\ tecla' = "r" /\ modo_calibracion

\* C11: confirming with fewer than two recorded points fails: calibrado,
\* altura_pixeles_referencia, factor_conversion, the recorded points and
\* modo_calibracion are unchanged, the loop goes on, and no row is handed to
\* table calibracion_camara.
C11_ConfirmarIncompleta ==
    [][(ConfirmarDespachada /\ ~PuntosMarcados) =>
          /\ UNCHANGED <<calibrado, altura_pixeles_referencia, factor_conversion,
                         punto1_calibracion, punto2_calibracion, modo_calibracion>>
          /\ fila_calibracion' = <<>>
          /\ estado' = "ejecutando"]_vars

\* "c" was dispatched with one point recorded, while a calibration confirmed
\* earlier is in force
C11_Witness ==
    /\ tecla = "c"
    /\ modo_calibracion
    /\ punto1_calibracion # None
    /\ punto2_calibracion = None
    /\ calibrado

\* C12 as stated: confirming with two recorded points of equal y fails and is
\* recoverable: calibrado, altura_pixeles_referencia and factor_conversion
\* are unchanged, calibration mode stays active and the loop keeps running.
C12_DegeneradaRecuperable ==
    [][(/\ ConfirmarDespachada
        /\ PuntosMarcados
        /\ punto1_calibracion[2] = punto2_calibracion[2]) =>
          /\ UNCHANGED <<calibrado, altura_pixeles_referencia, factor_conversion>>
          /\ modo_calibracion'
          /\ estado' = "ejecutando"]_vars

\* a fraction <<n, d>> is strictly positive
Positiva(f) == f[1] * f[2] > 0

\* C13: whenever calibrado is true, factor_conversion is defined and strictly
\* positive, for every sequence of iniciar_calibracion (reference height > 0),
\* clicks, resets and confirmations.
C13_FactorPositivo ==
    calibrado => (factor_conversion # None /\ Positiva(factor_conversion))

\* a calibration of 105 cm over 105 px is in force, calibration was started
\* again and a reset was dispatched
C13_Witness ==
    /\ calibrado
    /\ modo_calibracion
    /\ tecla = "r"
    /\ factor_conversion = <<105, 105>>

\* C14 as stated: while calibrado is true, factor_conversion =
\* altura_real_referencia_cm / altura_pixeles_referencia, and the three change
\* only by a successful confirmation.
C14_CalibracionInmutable ==
    /\ [](calibrado =>
            /\ altura_real_referencia_cm # None
            /\ altura_pixeles_referencia # None
            /\ factor_conversion # None
            /\ factor_conversion[1] * altura_pixeles_referencia[1] =
                   altura_real_referencia_cm[1] * factor_conversion[2])
    /\ [][(calibrado /\ fila_calibracion' = <<>>) =>
             UNCHANGED <<altura_real_referencia_cm, altura_pixeles_referencia,
                         factor_conversion>>]_vars

\* C15: a point is recorded only in calibration mode; the first point
\* accepted after iniciar_calibracion or a reset is punto1, the second is
\* punto2, and a further click changes neither, until both are cleared again;
\* a reset clears both points and changes neither modo_calibracion nor the
\* confirmed calibration.
C15_PuntosDeCalibracion ==
    [][/\ (punto1_calibracion' # punto1_calibracion \/ punto2_calibracion' # punto2_calibracion) =>
           \/ /\ modo_calibracion
              /\ punto1_calibracion = None /\ punto1_calibracion' # None
              /\ punto2_calibracion = None /\ punto2_calibracion' = None
           \/ /\ modo_calibracion
              /\ punto1_calibracion # None /\ punto1_calibracion' = punto1_calibracion
              /\ punto2_calibracion = None /\ punto2_calibracion' # None
           \/ punto1_calibracion' = None /\ punto2_calibracion' = None
       /\ ReiniciarDespachada =>
           /\ punto1_calibracion' = None /\ punto2_calibracion' = None
           /\ UNCHANGED <<modo_calibracion, calibrado, altura_real_referencia_cm,
                          altura_pixeles_referencia, factor_conversion>>
      ]_vars

\* during a second calibration two points were clicked, the lower one first,
\* and the last step was a click
C15_Witness ==
    /\ calibrado
    /\ modo_calibracion
    /\ tecla = "ninguna"
    /\ punto1_calibracion = <<100, 260>>
    /\ punto2_calibracion = <<100, 50>>

\* C16: clasificar_persona(altura_px, ancho_px) returns ("Sin calibrar", None)
\* when not calibrated; otherwise altura_cm is altura_px * factor_conversion
\* to the nearest tenth, and the category is "Nino/a" iff altura_cm < 110,
\* "Adolescente" iff 110 <= altura_cm < 150, and for altura_cm >= 150 "Mujer"
\* iff altura_px / ancho_px > 2.8 (the ratio taken as 0 when ancho_px = 0),
\* else "Hombre"; so 109.9 is "Nino/a", 110.0 "Adolescente" and 150.0 is in
\* the "Mujer" / "Hombre" branch.
C16_Clasificacion ==
    [][FrameProcesado =>
          /\ Len(clasificaciones') = Len(personas_trackeadas')
          /\ \A k \in 1..Len(clasificaciones') :
                LET c == clasificaciones'[k]
                    bbox == personas_trackeadas'[k].bbox
                    alto == bbox[4] - bbox[2]
                    ancho == bbox[3] - bbox[1]
                    d == c.altura_cm[1]
                    f == factor_conversion
                    C == c.clasificacion
                IN  IF ~calibrado
                    THEN C = "Sin calibrar" /\ c.altura_cm = None
                    ELSE /\ c.altura_cm # None
                         /\ 2 * Abs(10 * alto * f[1] - d * f[2]) <= f[2]
                         /\ C \in {"Nino/a", "Adolescente", "Mujer", "Hombre"}
                         /\ C = "Nino/a" <=> d < 1100
                         /\ C = "Adolescente" <=> (1100 <= d /\ d < 1500)
                         /\ C = "Mujer" <=> (d >= 1500 /\ ancho # 0 /\ 10 * alto > 28 * ancho)
                         /\ C = "Hombre" <=>
                                (d >= 1500 /\ (ancho = 0 \/ 10 * alto <= 28 * ancho))
                         /\ d = 1099 => C = "Nino/a"
                         /\ d = 1100 => C = "Adolescente"
                         /\ d = 1500 => C \in {"Mujer", "Hombre"}]_vars

\* a person of 157 px seen under a calibration of 147 cm over 210 px:
\* 109.9 cm, "Nino/a"
C16_Witness ==
    /\ Len(clasificaciones) = 1
    /\ clasificaciones[1] = [clasificacion |-> "Nino/a", altura_cm |-> <<1099>>]
    /\ personas_trackeadas[1].altura_px = 157
    /\ factor_conversion = <<147, 210>>
    /\ altura_real_referencia_cm = <<147>>

\* number of movements of a type in a list of movements
Cuantos(movs, tipo) == Cardinality({k \in 1..Len(movs) : movs[k].tipo = tipo})

\* C17 as stated: total_entradas and total_salidas never decrease and change
\* only by crossing events, by at most one per entrance (exit) emitted,
\* whatever the database does.
C17_ContadoresPorEvento ==
    [][/\ total_entradas' >= total_entradas
       /\ total_salidas' >= total_salidas
       /\ total_entradas' - total_entradas <=
              (IF FrameProcesado THEN Cuantos(movimientos', "entrada") ELSE 0)
       /\ total_salidas' - total_salidas <=
              (IF FrameProcesado THEN Cuantos(movimientos', "salida") ELSE 0)]_vars

\* C18: a call of registrar_movimiento makes at most 3 attempts; it returns
\* True iff one of them ran to the end of its commit, which is then the last
\* one; when the connection check fails it returns False without an attempt,
\* and after a third failed attempt it returns False without another one.
C18_TresIntentos ==
    registro # <<>> =>
        LET r == registro[1]
            f == r.salida.fallos
        IN  /\ r.n_intentos <= 3
            /\ r.exito <=> (r.salida.conectado /\ Len(f) < 3)
            /\ r.exito => r.n_intentos = Len(f) + 1
            /\ (~r.exito /\ r.salida.conectado) => r.n_intentos = 3
            /\ ~r.salida.conectado => r.n_intentos = 0

\* a call whose three attempts failed, at the INSERT, the UPDATE and the
\* commit, after a first call had succeeded at its third attempt
C18_Witness ==
    /\ n_registros = 2
    /\ registro # <<>>
    /\ registro[1].salida.fallos = <<"insert", "update", "commit">>
    /\ ~registro[1].exito
    /\ registro[1].n_intentos = 3
    /\ total_entradas + total_salidas >= 2


\* C19: under every interleaving of the thread of update() and the loop of
\* ejecutar(), no captured frame is passed to detectar_y_trackear more than
\* once, also when the source is slower than the loop or stops delivering.
C19_FrameUnaVez == \A n \in 1..MaxFrames : veces_procesado[n] <= 1

\* C20: once the user has pressed 'q' the loop eventually ends, whether or not
\* a frame has arrived yet; when it has ended RTSPReader.running is False and
\* the capture is released, and the thread of update() eventually leaves its
\* loop.
C20_ParadaTermina ==
    /\ q_pulsada ~> (estado = "fin")
    /\ [](estado = "fin" => ~running /\ stream_liberado)
    /\ (estado = "fin") ~> (hilo = "fin")


\* zone of the average of the first two samples ever observed for an identity
ZonaPrimeras(m) == IF m[1] + m[2] < 2 * y_cruce[1] THEN "Arriba" ELSE "Abajo"

\* the identity had emitted a movement before its last observation
YaHabiaEmitido(id) ==
    emitidos[id] - (IF resultado[id] # "None" THEN 1 ELSE 0) >= 1

\* C21 as stated: at every call of detectar_cruce_linea with at least 2
\* samples, the reference zone (the zone of the average of historial[:2]) is
\* the zone of the average of the first two samples ever recorded for the
\* identity, also after the history has dropped older samples.
C21_Original ==
    \A id \in DOMAIN resultado :
        Len(muestras[id]) >= 2 =>
            ZonaAnterior(historial_posicion[id], y_cruce[1]) = ZonaPrimeras(muestras[id])

\* C21 as amended: the reference zone is taken from the two oldest samples
\* the history still holds. They are the first two ever recorded while no
\* sample was dropped (at most 5 observations), and for an identity that had
\* not emitted yet they lie in the zone of the first two ever recorded; so
\* every call returns what the first two samples ever recorded, the current
\* foot y and the earlier emission of the identity determine.
C21_ZonaAnteriorDelHistorial ==
    \A id \in DOMAIN resultado :
        LET m == muestras[id]
            h == historial_posicion[id]
        IN  Len(m) >= 2 =>
                /\ Len(m) <= max_historial => (h[1] = m[1] /\ h[2] = m[2])
                /\ Len(m) > max_historial =>
                       (h[1] = m[Len(m) - max_historial + 1] /\
                        h[2] = m[Len(m) - max_historial + 2])
                /\ ~YaHabiaEmitido(id) =>
                       ZonaAnterior(h, y_cruce[1]) = ZonaPrimeras(m)
                /\ resultado[id] =
                       Movimiento(ZonaPrimeras(m), ZonaActual(m[Len(m)], y_cruce[1]),
                                  YaHabiaEmitido(id))

\* six observations of an identity that entered at the third: the first
\* sample is gone, and the two oldest samples of the history are in the
\* other zone than the first two ever recorded
C21_Witness ==
    \E id \in DOMAIN resultado :
        /\ Len(muestras[id]) = 6
        /\ Len(historial_posicion[id]) = max_historial
        /\ emitidos[id] = 1
        /\ resultado[id] = "None"
        /\ ZonaPrimeras(muestras[id]) = "Arriba"
        /\ ZonaAnterior(historial_posicion[id], y_cruce[1]) = "Abajo"


\* the result of the last call of registrar_movimiento of the last step
UltimoExito == exitos[Len(exitos)]

\* C22: the warning of repeated database failure has been printed exactly
\* when more than 10 movements in a row were dropped with none registered in
\* between; it is printed only at a dropped movement; a registered movement
\* puts the count back to 0; and the loop goes on after the warning (it ends
\* only on the key 'q').
C22_AvisoDegradado ==
    /\ aviso_en_racha <=> racha > 10
    /\ avisos \in {0, 1}
    /\ avisos = 1 => (exitos # <<>> /\ ~UltimoExito /\ racha > 10)
    /\ (exitos # <<>> /\ UltimoExito) =>
           (contador_sin_db = 0 /\ racha = 0 /\ ~aviso_en_racha)
    /\ (avisos = 1 /\ tecla # "q") => estado = "ejecutando"

\* the warning was printed at the eleventh dropped movement, the loop went
\* on and the twelfth was dropped too
C22_Witness ==
    /\ racha = 12
    /\ aviso_en_racha
    /\ contador_sin_db = 1
    /\ exitos = <<FALSE>>
    /\ estado = "ejecutando"


\* a read of the loop returns a frame in this step
FrameLeido == lecturas' = lecturas + 1

\* nothing of the tracker, of the counters or of the registration changes
SinProcesar ==
    /\ UNCHANGED <<personas_trackeadas, siguiente_id, historial_posicion, ids_cruzados>>
    /\ UNCHANGED <<total_entradas, total_salidas, movimientos, exitos>>
    /\ UNCHANGED <<n_detecciones, personas_previas, resultado, ultimo_frame_procesado>>

\* detection and tracking ran on the frame of this read, and its output is displayed
Procesado ==
    /\ personas_previas' = personas_trackeadas
    /\ Len(personas_trackeadas') = n_detecciones' - n_detecciones
    /\ ultimo_frame_procesado' = <<lecturas'>>
    /\ mostrado' = <<"procesado", lecturas'>>

\* detectar_cruce_linea ran for every person of the frame
CrucesObservados == DOMAIN resultado' = Ids(personas_trackeadas')

\* C23 as stated: numbering from 1 the reads that return a frame, detection,
\* tracking and crossing detection run exactly on the even reads; on every
\* odd read nothing changes, no movement is emitted and the last processed
\* output is displayed again.
C23_Original ==
    [][FrameLeido =>
          IF lecturas' % 2 = 0
          THEN Procesado /\ CrucesObservados
          ELSE SinProcesar /\ mostrado' = <<"procesado", lecturas' - 1>>]_vars

\* C23 as amended: detection and tracking run exactly on the even reads, and
\* crossing detection on the even reads outside calibration mode; on every
\* odd read nothing changes and no movement is emitted; an odd read displays
\* the output of the read before it, except the first read, which displays
\* its own frame as no frame has been processed yet.
C23_SaltoDeFrames ==
    [][FrameLeido =>
          IF lecturas' % 2 = 0
          THEN /\ Procesado
               /\ IF modo_calibracion THEN resultado' = <<>> ELSE CrucesObservados
          ELSE /\ SinProcesar
               /\ mostrado' = IF lecturas' = 1 THEN <<"frame", 1>>
                               ELSE <<"procesado", lecturas' - 1>>]_vars

\* the fifth read: the output of the fourth, in which a person was tracked,
\* is displayed again
C23_Witness ==
    /\ lecturas = 5
    /\ mostrado = <<"procesado", 4>>
    /\ ultimo_frame_procesado = <<4>>
    /\ Len(personas_trackeadas) = 1
    /\ personas_trackeadas[1].id \in DOMAIN historial_posicion
    /\ Len(historial_posicion[personas_trackeadas[1].id]) = 2


\* C24: in every frame processed in calibration mode, every person of the
\* frame is classified "Sin calibrar" and has no altura_cm, whatever calls of
\* iniciar_calibracion, clicks, resets and confirmations came before.
C24_SinCalibrarEnModo ==
    [][(FrameProcesado /\ modo_calibracion) =>
          \A k \in 1..Len(clasificaciones') :
              /\ clasificaciones'[k].clasificacion = "Sin calibrar"
              /\ clasificaciones'[k].altura_cm = None]_vars


\* C25: for the movement handed to one call of registrar_movimiento, at most
\* one row of movimientos and at most one update of aforo_actual are
\* committed, whatever attempts fail and at whatever statement: the rows a
\* failed attempt wrote are never committed with those of a later attempt.
C25_UnaFilaPorMovimiento ==
    /\ confirmados.movimientos <= 1
    /\ confirmados.aforo <= 1


\* C26: under every interleaving of RTSPReader.stop() with the loop of
\* update(), the thread never calls stream.read() after stop() has released
\* the capture.
C26_SinLecturaTrasLiberar ==
    [][(hilo = "read" /\ hilo' = "while") => ~stream_liberado]_vars

====
